---- MODULE Spec2Model ----
(***************************************************************************)
(* A model of the golf-club scraping pipeline of Snowpark_Webscrape.py and *)
(* Streamlit_Webscrape.py: price cleaning, identity derivation, the        *)
(* merge into the GOLF_DRIVERS table with its statistics queries, the      *)
(* retry loops of the two HTTP fetchers, and the pagination loop of        *)
(* scrape_products with what its callers do with the returned frame.       *)
(*                                                                         *)
(* A Python str is a sequence of one-character strings, so that replace,   *)
(* strip, lower and float() are computed character by character.           *)
(***************************************************************************)
EXTENDS Integers, Sequences, FiniteSets, TLC

VARIABLES
    store,        \* the GOLF_DRIVERS table: a sequence of rows (SQL tables hold duplicates)
    now,          \* the warehouse clock read by CURRENT_TIMESTAMP()
    upc,          \* position inside upload_to_snowflake
    staged,       \* TEMP_GOLF_PRODUCTS / GOLF_PRODUCTS_VIEW: the renamed DataFrame
    new_records,  \* result of the first statistics query
    updated_records, \* result of the second statistics query
    store0,       \* history: the table as it was when the MERGE began
    prev,         \* history: the previous upload's batch, when it was all new identities
    fe,           \* the front-end whose fetcher runs: "snowpark" | "streamlit"
    retry_count,  \* the fetcher's retry_count argument
    fpc,          \* position of the fetch: "loop" | "returned" | "raised"
    attempt,      \* the loop variable of `for attempt in range(retry_count)`
    waited,       \* milliseconds slept since the last session.get
    outcome,      \* what the fetch returned or raised
    hist,         \* history: every session.get of this fetch, with its result
                  \* and the time slept since the one before
    max_pages,    \* the page bound of the run (MAX_PAGES / the form's max_pages)
    current_page, \* scrape_products' page counter
    products,     \* scrape_products' list of parsed records
    spc,          \* position of the run: "idle" | "loop" | "fetching" | "returned"
                  \* | "no_data" | "interrupted"
    pagelog,      \* history: every call of the fetcher by this run, with what came back
    returned_df,  \* the DataFrame scrape_products returned
    view,         \* the schema's object GOLF_PRODUCTS_VIEW, shared by all sessions
    runs          \* two concurrent uploads: each one's position, batch, session
                  \* temporary table, statistics and (history) whose batch it read

recVars == <<store, now, upc, staged, new_records, updated_records, store0, prev>>
fetchVars == <<fe, retry_count, fpc, attempt, waited, outcome, hist>>
scrapeVars == <<max_pages, current_page, products, spc, pagelog, returned_df>>
concVars == <<view, runs>>
vars == <<store, now, upc, staged, new_records, updated_records, store0, prev,
          fe, retry_count, fpc, attempt, waited, outcome, hist,
          max_pages, current_page, products, spc, pagelog, returned_df,
          view, runs>>

-----------------------------------------------------------------------------
(* Python str helpers                                                      *)

\* The characters of the model's texts, in code-point order.
CodePoints == <<" ", "$", "+", ",", "-", ".", "/",
                "0", "1", "2", "3", "4", "5", "6", "7", "8", "9", ":",
                "A", "B", "C", "D", "E", "F", "G", "H", "I", "J", "K", "L", "M",
                "N", "O", "P", "Q", "R", "S", "T", "U", "V", "W", "X", "Y", "Z",
                "_",
                "a", "b", "c", "d", "e", "f", "g", "h", "i", "j", "k", "l", "m",
                "n", "o", "p", "q", "r", "s", "t", "u", "v", "w", "x", "y", "z">>

Code(c) == CHOOSE i \in 1..Len(CodePoints) : CodePoints[i] = c

Digits == {"0", "1", "2", "3", "4", "5", "6", "7", "8", "9"}

DigitVal(c) == Code(c) - Code("0")

IsUpper(c) == c \in {CodePoints[i] : i \in Code("A")..Code("Z")}

\* str.lower() on one character
LowerChar(c) ==
    IF IsUpper(c) THEN CodePoints[Code(c) - Code("A") + Code("a")] ELSE c

\* str.lower()
Lower(s) == [i \in 1..Len(s) |-> LowerChar(s[i])]

\* str.replace(c, '')
RemoveChar(s, c) == SelectSeq(s, LAMBDA x : x # c)

RECURSIVE LStrip(_, _)
LStrip(s, cs) ==
    IF s # <<>> /\ Head(s) \in cs THEN LStrip(Tail(s), cs) ELSE s

RECURSIVE RStrip(_, _)
RStrip(s, cs) ==
    IF s # <<>> /\ s[Len(s)] \in cs THEN RStrip(SubSeq(s, 1, Len(s) - 1), cs) ELSE s

\* str.strip(chars); str.strip() strips whitespace
StripChars(s, cs) == RStrip(LStrip(s, cs), cs)
Strip(s) == StripChars(s, {" "})

\* s < t for Python str (lexicographic by code point)
RECURSIVE StrLess(_, _)
StrLess(s, t) ==
    IF t = <<>> THEN FALSE
    ELSE IF s = <<>> THEN TRUE
    ELSE IF Head(s) = Head(t) THEN StrLess(Tail(s), Tail(t))
    ELSE Code(Head(s)) < Code(Head(t))

-----------------------------------------------------------------------------
(* Python float(str) and SQL values                                        *)

RECURSIVE Pow10(_)
Pow10(n) == IF n = 0 THEN 1 ELSE 10 * Pow10(n - 1)

RECURSIVE DigitsVal(_)
DigitsVal(s) ==
    IF s = <<>> THEN 0 ELSE 10 * DigitsVal(SubSeq(s, 1, Len(s) - 1)) + DigitVal(s[Len(s)])

\* A number m / 10^e, or the absent value (Python None / NaN, SQL NULL).
RECURSIVE Norm(_, _)
Norm(m, e) ==
    IF m = 0 THEN [null |-> FALSE, m |-> 0, e |-> 0]
    ELSE IF e > 0 /\ m % 10 = 0 THEN Norm(m \div 10, e - 1)
    ELSE [null |-> FALSE, m |-> m, e |-> e]

NULL == [null |-> TRUE, m |-> 0, e |-> 0]
Zero == Norm(0, 0)

\* float(s) over the characters of CodePoints: optional surrounding
\* whitespace, an optional sign, then "nan" (any case) or digits with single
\* underscores between digits and at most one decimal point.  An exponent
\* needs "e" next to digits and "inf" needs "i", which no numeric text of the
\* model holds.
FloatBody(s) ==
    LET t == Strip(s)
    IN  IF t # <<>> /\ Head(t) \in {"+", "-"} THEN Tail(t) ELSE t

FloatIsNan(s) == Lower(FloatBody(s)) = <<"n", "a", "n">>

\* TRUE when float(s) returns, FALSE when it raises ValueError
FloatParses(s) ==
    LET u == FloatBody(s)
        dots == {i \in 1..Len(u) : u[i] = "."}
    IN  \/ FloatIsNan(s)
        \/ /\ \A i \in 1..Len(u) : u[i] \in Digits \cup {".", "_"}
           /\ \A i \in 1..Len(u) : u[i] = "_" =>
                 /\ i > 1 /\ i < Len(u)
                 /\ u[i - 1] \in Digits /\ u[i + 1] \in Digits
           /\ Cardinality(dots) <= 1
           /\ \E i \in 1..Len(u) : u[i] \in Digits

\* the value float(s) returns; float('nan') is the missing value (pandas and
\* the warehouse load NaN as NULL)
FloatValue(s) ==
    LET t == Strip(s)
        d == RemoveChar(FloatBody(s), "_")
        neg == t # <<>> /\ Head(t) = "-"
        p == IF \E i \in 1..Len(d) : d[i] = "."
             THEN CHOOSE i \in 1..Len(d) : d[i] = "."
             ELSE Len(d) + 1
        ip == SubSeq(d, 1, p - 1)
        fp == SubSeq(d, p + 1, Len(d))
        mag == DigitsVal(ip \o fp)
    IN  IF FloatIsNan(s) THEN NULL
        ELSE Norm(IF neg THEN 0 - mag ELSE mag, Len(fp))

\* a < b for two numbers
NumLess(a, b) == a.m * Pow10(b.e) < b.m * Pow10(a.e)

\* SQL a != b: "TRUE", "FALSE", or "NULL" when either side is NULL
SqlNe(a, b) ==
    IF a.null \/ b.null THEN "NULL" ELSE IF a = b THEN "FALSE" ELSE "TRUE"

-----------------------------------------------------------------------------
(* Normalizer                                                              *)

\* _clean_price / clean_price: the float of the text without "$" and ",",
\* None (NULL) when float() raises
clean_price(price_str) ==
    LET t == Strip(RemoveChar(RemoveChar(price_str, "$"), ","))
    IN  IF FloatParses(t) THEN FloatValue(t) ELSE NULL

\* hashlib.md5(...).hexdigest(): a digest is modelled as an injective tag of
\* the bytes hashed (collisions of the digest itself are not modelled).
Md5Hex(s) == <<"md5", s>>

\* '_'.join of the seven identity fields, as the f-string builds it
unique_string(row) ==
    row.Brand \o <<"_">> \o row.Model \o <<"_">> \o row.Condition \o <<"_">>
    \o row.Dexterity \o <<"_">> \o row.Loft \o <<"_">> \o row.Flex
    \o <<"_">> \o row.Shaft

\* GolfClubScraper._create_driver_id, from its own f-string
GolfClubScraper_create_driver_id(row) ==
    Md5Hex(Lower(row.Brand \o <<"_">> \o row.Model \o <<"_">> \o row.Condition
                 \o <<"_">> \o row.Dexterity \o <<"_">> \o row.Loft \o <<"_">>
                 \o row.Flex \o <<"_">> \o row.Shaft))

\* an identity hashed without lower()
create_driver_id_cased(row) == Md5Hex(unique_string(row))

\* create_driver_id (the frames of both front-ends are built with it)
create_driver_id(row) == Md5Hex(Lower(unique_string(row)))

-----------------------------------------------------------------------------
(* Extractor                                                               *)

\* An optional text: what find() returned (None, or an element with text)
Some(t) == [has |-> TRUE, text |-> t]
Nothing == [has |-> FALSE, text |-> <<>>]

\* `sub in s` for Python str
Contains(s, sub) ==
    \E i \in 0..(Len(s) - Len(sub)) : SubSeq(s, i + 1, i + Len(sub)) = sub

LblDexterity == <<"D", "e", "x", "t", "e", "r", "i", "t", "y", ":">>
LblLoft == <<"L", "o", "f", "t", ":">>
LblFlex == <<"F", "l", "e", "x", ":">>
LblShaft == <<"S", "h", "a", "f", "t", ":">>

\* the dict parse_product starts from
EmptyInfo ==
    [Brand |-> <<>>, Model |-> <<>>, Price |-> NULL, Condition |-> <<>>,
     Dexterity |-> <<>>, Loft |-> <<>>, Flex |-> <<>>, Shaft |-> <<>>, URL |-> <<>>]

\* One pass of the loop over the attribute labels.  a.sibling is
\* label.next_sibling: kind "none" (None), "text" (a string) or "tag".
ApplyAttr(info, a) ==
    LET label_text == Strip(a.label)
        value == StripChars(a.sibling.text, {" ", ":", ","})
    IN  IF a.sibling.kind = "none" \/ a.sibling.text = <<>> THEN info
        ELSE IF Contains(label_text, LblDexterity) THEN [info EXCEPT !.Dexterity = value]
        ELSE IF Contains(label_text, LblLoft) THEN [info EXCEPT !.Loft = value]
        ELSE IF Contains(label_text, LblFlex) THEN [info EXCEPT !.Flex = value]
        ELSE IF Contains(label_text, LblShaft) THEN [info EXCEPT !.Shaft = value]
        ELSE info

RECURSIVE ApplyAttrs(_, _)
ApplyAttrs(info, attrs) ==
    IF attrs = <<>> THEN info
    ELSE ApplyAttrs(ApplyAttr(info, Head(attrs)), Tail(attrs))

\* value.strip(' :,') on a sibling that is a tag raises (a Tag has no strip)
ParseRaises(el) ==
    \E i \in 1..Len(el.attrs) : el.attrs[i].sibling.kind = "tag"

BASE_URL == <<"h", "t", "t", "p", "s", ":", "/", "/", "w", "w", "w", ".", "2", "n",
              "d", "s", "w", "i", "n", "g", ".", "c", "o", "m">>

\* parse_product on an element that does not raise
product_info(el) ==
    LET i1 == IF el.brand.has THEN [EmptyInfo EXCEPT !.Brand = Strip(el.brand.text)]
              ELSE EmptyInfo
        i2 == IF el.model.has THEN [i1 EXCEPT !.Model = Strip(el.model.text)] ELSE i1
        i3 == IF el.price.has
              THEN [i2 EXCEPT !.Price = clean_price(Strip(el.price.text))] ELSE i2
        i4 == IF el.condition.has
              THEN [i3 EXCEPT !.Condition = Strip(el.condition.text)] ELSE i3
        i5 == ApplyAttrs(i4, el.attrs)
    IN  IF el.link.has THEN [i5 EXCEPT !.URL = BASE_URL \o el.link.text] ELSE i5

\* a loop over the elements that the first raising element ends
RECURSIVE parse_products_abort(_)
parse_products_abort(els) ==
    IF els = <<>> \/ ParseRaises(Head(els)) THEN <<>>
    ELSE <<product_info(Head(els))>> \o parse_products_abort(Tail(els))

\* the loop `for element in product_elements` of scrape_products: an element
\* whose parse raises yields None and is not appended
RECURSIVE parse_products(_)
parse_products(els) ==
    IF els = <<>> THEN <<>>
    ELSE IF ParseRaises(Head(els)) THEN parse_products(Tail(els))
    ELSE <<product_info(Head(els))>> \o parse_products(Tail(els))

-----------------------------------------------------------------------------
(* The DataFrame scrape_products returns                                   *)

\* a precedes b under sort_values(['Price', 'Brand'], ascending=[False, True]):
\* missing prices last, then price descending, then brand ascending
SortsBefore(a, b) ==
    IF a.Price.null # b.Price.null THEN b.Price.null
    ELSE IF ~a.Price.null /\ a.Price # b.Price THEN NumLess(b.Price, a.Price)
    ELSE StrLess(a.Brand, b.Brand)

\* x put into the sorted frame after every row it does not precede (stable)
RECURSIVE InsertSorted(_, _)
InsertSorted(sorted, x) ==
    IF sorted = <<>> THEN <<x>>
    ELSE IF SortsBefore(x, Head(sorted)) THEN <<x>> \o sorted
    ELSE <<Head(sorted)>> \o InsertSorted(Tail(sorted), x)

RECURSIVE sort_values(_)
sort_values(df) ==
    IF df = <<>> THEN <<>>
    ELSE InsertSorted(sort_values(SubSeq(df, 1, Len(df) - 1)), df[Len(df)])

\* the tail of scrape_products: SOURCE_URL and DRIVER_ID columns, then the sort
\* (an empty frame gets neither column)
data_frame(rows, url) ==
    sort_values([i \in 1..Len(rows) |->
        [Brand |-> rows[i].Brand, Model |-> rows[i].Model,
         Price |-> rows[i].Price, Condition |-> rows[i].Condition,
         Dexterity |-> rows[i].Dexterity, Loft |-> rows[i].Loft,
         Flex |-> rows[i].Flex, Shaft |-> rows[i].Shaft,
         URL |-> rows[i].URL, SOURCE_URL |-> url,
         DRIVER_ID |-> create_driver_id(rows[i])]])

\* prepare_for_snowflake: the columns renamed
prepare_for_snowflake(df) ==
    [i \in 1..Len(df) |->
        [BRAND |-> df[i].Brand, MODEL |-> df[i].Model, PRICE |-> df[i].Price,
         CONDITION |-> df[i].Condition, DEXTERITY |-> df[i].Dexterity,
         LOFT |-> df[i].Loft, FLEX |-> df[i].Flex, SHAFT |-> df[i].Shaft,
         PRODUCT_URL |-> df[i].URL, SOURCE_URL |-> df[i].SOURCE_URL,
         DRIVER_ID |-> df[i].DRIVER_ID]]

-----------------------------------------------------------------------------
(* Reconciler: upload_to_snowflake                                         *)

MaxBatch == 2     \* listing elements scraped in one run
MaxClock == 2     \* uploads in one behaviour (each reads a later timestamp)

\* Listing elements a catalog page may hold.  ElX1 and ElX2 are one club
\* (brand in different case) at two prices and two links; ElY1 and ElY2 are
\* another club with an unparseable price and with the price 0; ElX3 is the
\* first club once more, at ElX2's price under a third link.
El(brand, price, href, attrs) ==
    [brand |-> Some(brand), model |-> Some(<<"x">>), price |-> Some(price),
     condition |-> Some(<<"N", "e", "w">>), attrs |-> attrs, link |-> Some(href)]

FlexR == <<[label |-> LblFlex, sibling |-> [kind |-> "text", text |-> <<" ", "R", ",", " ">>]]>>

ElX1 == El(<<"A", "b">>, <<"$", "1", ",", "2", "3", "4", ".", "5", "0">>, <<"/", "a">>, FlexR)
ElX2 == El(<<"A", "B">>, <<" ", "$", "9", " ">>, <<"/", "b">>, FlexR)
ElX3 == El(<<"a", "b">>, <<"9", ".", "0">>, <<"/", "d">>, FlexR)
ElY1 == El(<<"C", "d">>, <<"N", "/", "A">>, <<"/", "c">>, <<>>)
ElY2 == El(<<"C", "d">>, <<"0">>, <<"/", "c">>, <<>>)

Listings == {ElX1, ElX2, ElX3, ElY1, ElY2}

\* catalog URLs a run may be started with
ScrapeUrls == {<<"u", "1">>, <<"u", "2">>}

\* the listing elements one run may scrape, in page order
Pages == UNION {[1..n -> Listings] : n \in 1..MaxBatch}

\* the frames scrape_products may hand to upload_to_snowflake
Frames == {data_frame(parse_products(els), url) : els \in Pages, url \in ScrapeUrls}

\* ON target.DRIVER_ID = source.DRIVER_ID
on_driver_id(t, s) == t.DRIVER_ID = s.DRIVER_ID

\* a WHEN MATCHED clause without the price condition
price_differs_always(t, s) == TRUE

\* WHEN MATCHED AND target.PRICE != source.PRICE
price_differs(t, s) == SqlNe(t.PRICE, s.PRICE) = "TRUE"

\* an UPDATE that stamps FIRST_SEEN as well
update_set_reseen(t, s, ts) ==
    [t EXCEPT !.PRICE = s.PRICE, !.SOURCE_URL = s.SOURCE_URL, !.LAST_UPDATED = ts,
              !.FIRST_SEEN = ts]

\* UPDATE SET PRICE, SOURCE_URL, LAST_UPDATED
update_set(t, s, ts) ==
    [t EXCEPT !.PRICE = s.PRICE, !.SOURCE_URL = s.SOURCE_URL, !.LAST_UPDATED = ts]

\* INSERT (...) VALUES (...)
insert_values(s, ts) ==
    [DRIVER_ID |-> s.DRIVER_ID, BRAND |-> s.BRAND, MODEL |-> s.MODEL,
     PRICE |-> s.PRICE, CONDITION |-> s.CONDITION, DEXTERITY |-> s.DEXTERITY,
     LOFT |-> s.LOFT, FLEX |-> s.FLEX, SHAFT |-> s.SHAFT,
     PRODUCT_URL |-> s.PRODUCT_URL, SOURCE_URL |-> s.SOURCE_URL,
     LAST_UPDATED |-> ts, FIRST_SEEN |-> ts]

\* the source rows whose join with target row t satisfies the WHEN MATCHED clause
UpdateSources(t, source) ==
    {j \in 1..Len(source) : on_driver_id(t, source[j]) /\ price_differs(t, source[j])}

\* what the MERGE may leave in place of target row t: the row itself when no
\* source row updates it, else the row updated from one of them (with several,
\* the warehouse picks one unless it rejects the statement, see MergeRejected)
RowOutcomes(t, source, ts) ==
    IF UpdateSources(t, source) = {} THEN {t}
    ELSE {update_set(t, source[j], ts) : j \in UpdateSources(t, source)}

RECURSIVE TargetOutcomes(_, _, _)
TargetOutcomes(target, source, ts) ==
    IF target = <<>> THEN {<<>>}
    ELSE LET front == SubSeq(target, 1, Len(target) - 1)
         IN  {Append(p, r) : p \in TargetOutcomes(front, source, ts),
                             r \in RowOutcomes(target[Len(target)], source, ts)}

\* WHEN NOT MATCHED: the source rows joining no target row, each inserted
NotMatched(target, source) ==
    SelectSeq(source, LAMBDA s : \A i \in 1..Len(target) : ~on_driver_id(target[i], s))

Inserted(target, source, ts) ==
    LET nm == NotMatched(target, source)
    IN  [j \in 1..Len(nm) |-> insert_values(nm[j], ts)]

\* a MERGE that also deletes the target rows the source does not match
merge_query_sync(target, source, ts) ==
    {SelectSeq(p, LAMBDA r : \E j \in 1..Len(source) : on_driver_id(r, source[j]))
        \o Inserted(target, source, ts) : p \in TargetOutcomes(target, source, ts)}

\* the tables the MERGE statement may produce
merge_query(target, source, ts) ==
    {p \o Inserted(target, source, ts) : p \in TargetOutcomes(target, source, ts)}

\* A target row that several source rows would update makes the MERGE
\* nondeterministic: by the session's ERROR_ON_NONDETERMINISTIC_MERGE setting
\* the statement either fails or picks one.
MergeRejected(target, source) ==
    \E i \in 1..Len(target) : Cardinality(UpdateSources(target[i], source)) > 1

\* SELECT COUNT(*) FROM staged s WHERE NOT EXISTS (... t.DRIVER_ID = s.DRIVER_ID)
count_new(target, source) ==
    Cardinality({j \in 1..Len(source) :
        ~\E i \in 1..Len(target) : on_driver_id(target[i], source[j])})

\* SELECT COUNT(*) FROM staged s JOIN GOLF_DRIVERS t ON ... WHERE t.PRICE != s.PRICE
count_updated(target, source) ==
    Cardinality({ji \in (1..Len(source)) \X (1..Len(target)) :
        /\ on_driver_id(target[ji[2]], source[ji[1]])
        /\ SqlNe(target[ji[2]].PRICE, source[ji[1]].PRICE) = "TRUE"})

Ids(table) == {table[i].DRIVER_ID : i \in 1..Len(table)}

\* the batch has one record per identity and none of them is stored
Fresh(source, target) ==
    /\ \A i, j \in 1..Len(source) : source[i].DRIVER_ID = source[j].DRIVER_ID => i = j
    /\ Ids(source) \cap Ids(target) = {}

NoBatch == [batch |-> <<>>, fresh |-> FALSE]

\* create_dataframe + save_as_table / create_or_replace_view: the scraped
\* frame, renamed, becomes the staging object.  Streamlit's main() uploads
\* only a frame that is not empty; an empty frame has no DRIVER_ID column, so
\* uploading one fails before any statement writes GOLF_DRIVERS.  Each upload
\* reads a later CURRENT_TIMESTAMP() than the one before.
Stage(df) ==
    /\ upc = "idle"
    /\ now < MaxClock
    /\ df # <<>>
    /\ staged' = prepare_for_snowflake(df)
    /\ now' = now + 1
    /\ store0' = store
    /\ upc' = "staged"
    /\ UNCHANGED <<store, new_records, updated_records, prev>>
    /\ UNCHANGED fetchVars
    /\ UNCHANGED scrapeVars
    /\ UNCHANGED concVars

\* session.sql(merge_query).collect()
Merge ==
    /\ upc = "staged"
    /\ store' \in merge_query(store, staged, now)
    /\ upc' = "merged"
    /\ UNCHANGED <<now, staged, new_records, updated_records, store0, prev>>
    /\ UNCHANGED fetchVars
    /\ UNCHANGED scrapeVars
    /\ UNCHANGED concVars

\* the MERGE fails as nondeterministic: the except clause re-raises
MergeFails ==
    /\ upc = "staged"
    /\ MergeRejected(store, staged)
    /\ upc' = "raised"
    /\ UNCHANGED <<store, now, staged, new_records, updated_records,
                   store0, prev>>
    /\ UNCHANGED fetchVars
    /\ UNCHANGED scrapeVars
    /\ UNCHANGED concVars

\* create_dataframe / save_as_table / create_or_replace_view fails (the
\* session is lost, the role may not create the object): the except clause
\* re-raises, no statement has touched GOLF_DRIVERS
StageFails ==
    /\ upc = "idle"
    /\ store0' = store
    /\ upc' = "raised"
    /\ UNCHANGED <<store, now, staged, new_records, updated_records, prev>>
    /\ UNCHANGED fetchVars
    /\ UNCHANGED scrapeVars
    /\ UNCHANGED concVars

\* a statistics query fails after the MERGE statement has run and, with no
\* transaction opened around the statements, committed: the except clause
\* re-raises
CountFails ==
    /\ upc \in {"merged", "counted"}
    /\ upc' = "raised"
    /\ UNCHANGED <<store, now, staged, new_records, updated_records,
                   store0, prev>>
    /\ UNCHANGED fetchVars
    /\ UNCHANGED scrapeVars
    /\ UNCHANGED concVars

\* the first statistics query, run after the MERGE
CountNew ==
    /\ upc = "merged"
    /\ new_records' = count_new(store, staged)
    /\ upc' = "counted"
    /\ UNCHANGED <<store, now, staged, updated_records, store0, prev>>
    /\ UNCHANGED fetchVars
    /\ UNCHANGED scrapeVars
    /\ UNCHANGED concVars

\* the second statistics query; the counts are then printed
CountUpdated ==
    /\ upc = "counted"
    /\ updated_records' = count_updated(store, staged)
    /\ upc' = "reported"
    /\ UNCHANGED <<store, now, staged, new_records, store0, prev>>
    /\ UNCHANGED fetchVars
    /\ UNCHANGED scrapeVars
    /\ UNCHANGED concVars

\* upload_to_snowflake returns or raises; the staging object goes away with
\* the session (temporary table) or is dropped (view)
Return ==
    /\ upc \in {"reported", "raised"}
    /\ prev' = IF upc = "reported" /\ Fresh(staged, store0)
               THEN [batch |-> staged, fresh |-> TRUE]
               ELSE NoBatch
    /\ staged' = <<>>
    /\ store0' = <<>>
    /\ new_records' = 0
    /\ updated_records' = 0
    /\ upc' = "idle"
    /\ UNCHANGED <<store, now>>
    /\ UNCHANGED fetchVars
    /\ UNCHANGED scrapeVars
    /\ UNCHANGED concVars

\* no fetch is running
FetchIdle ==
    /\ fe = "snowpark" /\ retry_count = 0 /\ fpc = "idle" /\ attempt = 0
    /\ waited = 0 /\ outcome = "none" /\ hist = <<>>

\* no scrape is running
ScrapeIdle ==
    /\ max_pages = 0 /\ current_page = 0 /\ products = <<>> /\ spc = "idle"
    /\ pagelog = <<>> /\ returned_df = <<>>

\* the two uploads that may run at once
Runs == {1, 2}

\* GOLF_PRODUCTS_VIEW does not exist
NoView == [exists |-> FALSE, owner |-> 0, batch |-> <<>>]

\* an upload that has not begun
RunIdle ==
    [pc |-> "idle", batch |-> <<>>, temp |-> <<>>, reads |-> <<>>,
     new_records |-> 0, updated_records |-> 0]

\* no concurrent uploads are running
ConcIdle == view = NoView /\ runs = [r \in Runs |-> RunIdle]

InitReconcile ==
    /\ store = <<>>
    /\ now = 0
    /\ upc = "idle"
    /\ staged = <<>>
    /\ new_records = 0
    /\ updated_records = 0
    /\ store0 = <<>>
    /\ prev = NoBatch
    /\ FetchIdle
    /\ ScrapeIdle
    /\ ConcIdle

NextReconcile ==
    \/ \E df \in Frames : Stage(df)
    \/ Merge
    \/ MergeFails
    \/ StageFails
    \/ CountFails
    \/ CountNew
    \/ CountUpdated
    \/ Return

SpecReconcile == InitReconcile /\ [][NextReconcile]_vars

\* The club of ElX1 and ElX2 listed once more, at a third price.
ElX4 == El(<<"A", "b">>, <<"2", "0">>, <<"/", "e">>, FlexR)

\* the frames of runs that find one club listed up to MaxBatch times, at up
\* to three prices
RelistFrames ==
    {data_frame(parse_products(els), url) :
        els \in UNION {[1..n -> {ElX1, ElX2, ElX4}] : n \in 1..MaxBatch},
        url \in ScrapeUrls}

\* uploads of such frames
NextRelist ==
    \/ \E df \in RelistFrames : Stage(df)
    \/ Merge
    \/ MergeFails
    \/ StageFails
    \/ CountFails
    \/ CountNew
    \/ CountUpdated
    \/ Return

SpecRelist == InitReconcile /\ [][NextRelist]_vars

-----------------------------------------------------------------------------
(* Fetcher: GolfClubScraper._make_request and make_request                 *)

MaxRetries == 3   \* largest retry_count a fetch is started with

SLEEP_TIME == 2   \* seconds
base_delay == 5   \* seconds

Ms(seconds) == seconds * 1000

RECURSIVE Pow2(_)
Pow2(n) == IF n = 0 THEN 1 ELSE 2 * Pow2(n - 1)

\* values random.uniform(1, 3) and random.uniform(0, 1) may return, in ms
Uniform13 == {Ms(1), Ms(3)}
Uniform01 == {0, Ms(1)}

\* Retry-After headers a 429 may carry: none, a number of seconds, a negative
\* number, a text float() rejects (such as an HTTP date)
RetryAfterHeaders ==
    {Nothing, Some(<<"3", "0">>), Some(<<"-", "5">>), Some(<<"s", "o", "o", "n">>)}

\* what session.get followed by raise_for_status may do: return the response,
\* raise HTTPError for a 4xx/5xx status, or raise another RequestException
Responses ==
    {[kind |-> "ok", status |-> 200, retry_after |-> Nothing],
     [kind |-> "conn", status |-> 0, retry_after |-> Nothing],
     [kind |-> "http", status |-> 404, retry_after |-> Nothing],
     [kind |-> "http", status |-> 500, retry_after |-> Nothing]}
    \cup {[kind |-> "http", status |-> 429, retry_after |-> h] : h \in RetryAfterHeaders}

\* the exception class the fetcher re-raises for a failed response
Raised(resp) == IF resp.kind = "http" THEN "HTTPError" ELSE "ConnectionError"

\* the test off by one: `if attempt == retry_count`
is_last_attempt_late(a, R) == a = R

\* `if attempt == retry_count - 1`
is_last_attempt(a, R) == a = R - 1

\* a float of seconds, in ms
Millis(v) == (v.m * 1000) \div Pow10(v.e)

\* `if retry_after:` and float(retry_after) succeed
retry_after_parses(h) == h.has /\ h.text # <<>> /\ FloatParses(h.text)

\* make_request's retry_after for a 429, in ms: the header's float, or
\* delay * 2 when the header is missing, empty or not a float
retry_after_ms(h, d) ==
    IF retry_after_parses(h) THEN Millis(FloatValue(h.text)) ELSE d * 2

\* time.sleep raises ValueError for a negative or NaN argument
sleep_raises(h) ==
    retry_after_parses(h) /\ (FloatIsNan(h.text) \/ FloatValue(h.text).m < 0)

Sent(resp, gap) ==
    [kind |-> resp.kind, status |-> resp.status, retry_after |-> resp.retry_after,
     gap |-> gap]

\* One pass of _make_request's loop.  Every RequestException, HTTPError
\* included, takes the one except clause.
SnowparkAttempt(resp) ==
    /\ fe = "snowpark" /\ fpc = "loop" /\ attempt < retry_count
    /\ hist' = Append(hist, Sent(resp, waited))
    /\ IF resp.kind = "ok"
       THEN /\ waited' = Ms(SLEEP_TIME)
            /\ fpc' = "returned" /\ outcome' = "response"
            /\ UNCHANGED attempt
       ELSE IF is_last_attempt(attempt, retry_count)
       THEN /\ waited' = 0
            /\ fpc' = "raised" /\ outcome' = Raised(resp)
            /\ UNCHANGED attempt
       ELSE /\ waited' = Ms(Pow2(attempt))
            /\ attempt' = attempt + 1
            /\ UNCHANGED <<fpc, outcome>>
    /\ UNCHANGED <<fe, retry_count>>
    /\ UNCHANGED recVars
    /\ UNCHANGED scrapeVars
    /\ UNCHANGED concVars

\* One pass of make_request's loop, with jitter j of the delay and k of the
\* wait after a failed request.
StreamlitAttempt(resp, j, k) ==
    LET d == Ms(base_delay) + Ms(attempt * 2) + j
    IN  /\ fe = "streamlit" /\ fpc = "loop" /\ attempt < retry_count
        /\ hist' = Append(hist, Sent(resp, waited + d))
        /\ IF resp.kind = "ok"
           THEN /\ waited' = 0
                /\ fpc' = "returned" /\ outcome' = "response"
                /\ UNCHANGED attempt
           ELSE IF resp.kind = "http" /\ resp.status = 429
           THEN IF sleep_raises(resp.retry_after)
                THEN /\ waited' = 0
                     /\ fpc' = "raised" /\ outcome' = "ValueError"
                     /\ UNCHANGED attempt
                ELSE IF is_last_attempt(attempt, retry_count)
                THEN /\ waited' = retry_after_ms(resp.retry_after, d)
                     /\ fpc' = "raised" /\ outcome' = "HTTPError"
                     /\ UNCHANGED attempt
                ELSE /\ waited' = retry_after_ms(resp.retry_after, d)
                     /\ attempt' = attempt + 1
                     /\ UNCHANGED <<fpc, outcome>>
           ELSE IF resp.kind = "http" \/ is_last_attempt(attempt, retry_count)
           THEN /\ waited' = 0
                /\ fpc' = "raised" /\ outcome' = Raised(resp)
                /\ UNCHANGED attempt
           ELSE /\ waited' = Ms(Pow2(attempt)) + k
                /\ attempt' = attempt + 1
                /\ UNCHANGED <<fpc, outcome>>
        /\ UNCHANGED <<fe, retry_count>>
        /\ UNCHANGED recVars
        /\ UNCHANGED scrapeVars
        /\ UNCHANGED concVars

\* the loop ran out: `return None`
LoopExit ==
    /\ fpc = "loop" /\ attempt >= retry_count
    /\ fpc' = "returned" /\ outcome' = "None"
    /\ UNCHANGED <<fe, retry_count, attempt, waited, hist>>
    /\ UNCHANGED recVars
    /\ UNCHANGED scrapeVars
    /\ UNCHANGED concVars

InitFetch ==
    /\ store = <<>> /\ now = 0 /\ upc = "idle" /\ staged = <<>>
    /\ new_records = 0 /\ updated_records = 0 /\ store0 = <<>> /\ prev = NoBatch
    /\ ConcIdle
    /\ fe \in {"snowpark", "streamlit"}
    /\ retry_count \in 0..MaxRetries
    /\ fpc = "loop" /\ attempt = 0 /\ waited = 0 /\ outcome = "none" /\ hist = <<>>
    /\ ScrapeIdle

NextFetch ==
    \/ \E resp \in Responses : SnowparkAttempt(resp)
    \/ \E resp \in Responses, j \in Uniform13, k \in Uniform01 : StreamlitAttempt(resp, j, k)
    \/ LoopExit

SpecFetch == InitFetch /\ [][NextFetch]_vars

-----------------------------------------------------------------------------
(* Paginator: scrape_products, and what its caller does with the frame     *)

MaxPages == 3     \* largest page bound a run is started with

default_retry_count == 3   \* scrape_products calls the fetcher with the default

\* the catalog URL of the run
WEBSITE_URL == <<"u", "1">>

\* a listing element whose Loft label is followed by a tag instead of a string
ElBad ==
    El(<<"Z", "z">>, <<"$", "5">>, <<"/", "z">>,
       <<[label |-> LblLoft, sibling |-> [kind |-> "tag", text |-> <<"b">>]]>>)

\* what soup.find_all('li', class_='item product product-item') may return
ElementLists ==
    {<<>>, <<ElX1>>, <<ElBad, ElY1>>, <<ElX1, ElX2, ElBad, ElY1, ElY2>>}

\* a fetched page: its listing elements, and whether soup.find('a', class_='next')
\* finds a link
PageContents == [elements : ElementLists, next : BOOLEAN]

\* what a GET of a catalog page may do: succeed, fail on the network, or
\* answer 404
PageResponses ==
    {resp \in Responses : resp.kind \in {"ok", "conn"} \/ resp.status = 404}

Logged(page, result, elements, next) ==
    [page |-> page, result |-> result, elements |-> elements, next |-> next]

\* an except clause that drops what was collected
except_discard(collected) == <<>>

\* `except Exception as e: ... break`: the list collected so far goes to the tail
except_break(collected) == collected

\* a page bound tested one page late
within_bound_late(page, bound) == page <= bound + 1

\* `while current_page <= max_pages` / not `current_page > MAX_PAGES`
within_bound(page, bound) == page <= bound

\* a next link seen on every page
has_next_always(page) == TRUE

\* `next_page = soup.find('a', class_='next')` is truthy
has_next(page) == page.next

\* `MAX_PAGES = None  # Set to None for all pages`: a falsy bound is no bound
\* (the Streamlit number input has min_value=1 and never yields one)
unlimited(bound) == bound = 0

\* the loop goes on: not `MAX_PAGES and current_page > MAX_PAGES`
loop_continues(page, bound) == unlimited(bound) \/ within_bound(page, bound)

\* page numbers and log entries beyond PageCap are not told apart (a bounded
\* run never gets there: it stops at MaxPages + 1 at the latest)
PageCap == MaxPages + 1

\* `current_page += 1`
next_page_no(page) == IF page < PageCap THEN page + 1 ELSE page

\* the record of a page appended to the log of the run
Record(log, entry) == IF Len(log) < PageCap THEN Append(log, entry) ELSE log

\* top of the while loop with the page bound not exceeded: the fetcher is
\* called for current_page
FetchPage ==
    /\ spc = "loop" /\ loop_continues(current_page, max_pages)
    /\ spc' = "fetching"
    /\ fpc' = "loop" /\ attempt' = 0 /\ outcome' = "none" /\ hist' = <<>>
    /\ UNCHANGED <<fe, retry_count, waited>>
    /\ UNCHANGED <<max_pages, current_page, products, pagelog, returned_df>>
    /\ UNCHANGED recVars
    /\ UNCHANGED concVars

\* the page bound is exceeded: break, then the tail of scrape_products
BoundReached ==
    /\ spc = "loop" /\ ~loop_continues(current_page, max_pages)
    /\ returned_df' = data_frame(products, WEBSITE_URL)
    /\ spc' = "returned"
    /\ UNCHANGED <<max_pages, current_page, products, pagelog>>
    /\ UNCHANGED fetchVars
    /\ UNCHANGED recVars
    /\ UNCHANGED concVars

\* the fetcher raised: the except clause breaks, then the tail (the fetch is
\* over, and its record of GETs with it)
FetchRaised ==
    /\ spc = "fetching" /\ fpc = "raised"
    /\ pagelog' = Record(pagelog, Logged(current_page, "raised", <<>>, FALSE))
    /\ returned_df' = data_frame(except_break(products), WEBSITE_URL)
    /\ spc' = "returned"
    /\ UNCHANGED <<max_pages, current_page, products>>
    /\ fpc' = "idle" /\ hist' = <<>>
    /\ UNCHANGED <<fe, retry_count, attempt, waited, outcome>>
    /\ UNCHANGED recVars
    /\ UNCHANGED concVars

\* the fetcher returned: None breaks; a response is parsed, its elements
\* appended, and the loop goes on when the page has elements and a next link
PageFetched(page) ==
    /\ spc = "fetching" /\ fpc = "returned"
    /\ IF outcome = "None"
       THEN /\ pagelog' = Record(pagelog, Logged(current_page, "None", <<>>, FALSE))
            /\ returned_df' = data_frame(products, WEBSITE_URL)
            /\ spc' = "returned"
            /\ UNCHANGED <<current_page, products>>
       ELSE /\ pagelog' = Record(pagelog,
                              Logged(current_page, "response", page.elements, page.next))
            /\ IF page.elements = <<>>
               THEN /\ returned_df' = data_frame(products, WEBSITE_URL)
                    /\ spc' = "returned"
                    /\ UNCHANGED <<current_page, products>>
               ELSE /\ products' = products \o parse_products(page.elements)
                    /\ IF has_next(page)
                       THEN /\ current_page' = next_page_no(current_page)
                            /\ spc' = "loop"
                            /\ UNCHANGED returned_df
                       ELSE /\ returned_df' = data_frame(products', WEBSITE_URL)
                            /\ spc' = "returned"
                            /\ UNCHANGED current_page
    /\ UNCHANGED max_pages
    /\ fpc' = "idle" /\ hist' = <<>>
    /\ UNCHANGED <<fe, retry_count, attempt, waited, outcome>>
    /\ UNCHANGED recVars
    /\ UNCHANGED concVars

\* KeyboardInterrupt, or the script runner's stop, is no Exception: it passes
\* the except clause and ends the run with no frame returned
Interrupt ==
    /\ spc \in {"loop", "fetching"}
    /\ spc' = "interrupted"
    /\ fpc' = "idle"
    /\ UNCHANGED <<fe, retry_count, attempt, waited, outcome, hist>>
    /\ UNCHANGED <<max_pages, current_page, products, pagelog, returned_df>>
    /\ UNCHANGED recVars
    /\ UNCHANGED concVars

\* the caller hands a frame with rows to upload_to_snowflake
MainUpload ==
    /\ spc = "returned"
    /\ Stage(returned_df)

\* __main__ hands over an empty frame as well: without a DRIVER_ID column the
\* upload raises before any statement writes GOLF_DRIVERS
MainUploadEmpty ==
    /\ spc = "returned" /\ fe = "snowpark" /\ returned_df = <<>>
    /\ upc = "idle"
    /\ upc' = "raised"
    /\ UNCHANGED <<store, now, staged, new_records, updated_records, store0, prev>>
    /\ UNCHANGED fetchVars
    /\ UNCHANGED scrapeVars
    /\ UNCHANGED concVars

\* main() shows "No data was scraped" for an empty frame
MainNoData ==
    /\ spc = "returned" /\ fe = "streamlit" /\ returned_df = <<>>
    /\ spc' = "no_data"
    /\ UNCHANGED <<max_pages, current_page, products, pagelog, returned_df>>
    /\ UNCHANGED fetchVars
    /\ UNCHANGED recVars
    /\ UNCHANGED concVars

InitScrape ==
    /\ store = <<>> /\ now = 0 /\ upc = "idle" /\ staged = <<>>
    /\ new_records = 0 /\ updated_records = 0 /\ store0 = <<>> /\ prev = NoBatch
    /\ ConcIdle
    /\ fe \in {"snowpark", "streamlit"}
    /\ retry_count = default_retry_count
    /\ fpc = "idle" /\ attempt = 0 /\ waited = 0 /\ outcome = "none" /\ hist = <<>>
    /\ max_pages \in 1..MaxPages
    /\ current_page = 1 /\ products = <<>> /\ spc = "loop"
    /\ pagelog = <<>> /\ returned_df = <<>>

NextScrape ==
    \/ FetchPage
    \/ \E resp \in PageResponses : SnowparkAttempt(resp)
    \/ \E resp \in PageResponses, j \in Uniform13, k \in Uniform01 :
          StreamlitAttempt(resp, j, k)
    \/ \E page \in PageContents : PageFetched(page)
    \/ FetchRaised
    \/ BoundReached
    \/ Interrupt
    \/ MainUpload
    \/ MainUploadEmpty
    \/ MainNoData

SpecScrape == InitScrape /\ [][NextScrape]_vars

-----------------------------------------------------------------------------
(* Page loop of scrape_products under any page bound, the program always    *)
(* taking its next step                                                     *)

\* pages of a site whose listings, if any, yield no record
PagingContents == [elements : {<<>>, <<ElBad>>}, next : BOOLEAN]

InitPaging ==
    /\ store = <<>> /\ now = 0 /\ upc = "idle" /\ staged = <<>>
    /\ new_records = 0 /\ updated_records = 0 /\ store0 = <<>> /\ prev = NoBatch
    /\ ConcIdle
    /\ fe \in {"snowpark", "streamlit"}
    /\ retry_count = default_retry_count
    /\ fpc = "idle" /\ attempt = 0 /\ waited = 0 /\ outcome = "none" /\ hist = <<>>
    /\ max_pages \in 0..MaxPages
    /\ unlimited(max_pages) => fe = "snowpark"
    /\ current_page = 1 /\ products = <<>> /\ spc = "loop"
    /\ pagelog = <<>> /\ returned_df = <<>>

NextPaging ==
    \/ FetchPage
    \/ \E resp \in PageResponses : SnowparkAttempt(resp)
    \/ \E resp \in PageResponses, j \in Uniform13, k \in Uniform01 :
          StreamlitAttempt(resp, j, k)
    \/ \E page \in PagingContents : PageFetched(page)
    \/ FetchRaised
    \/ BoundReached

\* the interpreter runs the loop on: a step that can be taken is taken
SpecPaging == InitPaging /\ [][NextPaging]_vars /\ WF_vars(NextPaging)

-----------------------------------------------------------------------------
(* Two uploads against one GOLF_DRIVERS table, their statements interleaved *)

\* the frames a run may upload: one record each; ElX1 and ElX2 are one club
\* at two prices, ElY2 is another club
ConcFrames ==
    {data_frame(parse_products(<<el>>), WEBSITE_URL) : el \in {ElX1, ElX2, ElY2}}

\* a statement found no object of the staging name
Missing == [from |-> 0, batch |-> <<>>]

\* What a statement of run r that names the staging object may read.
\* TEMP_GOLF_PRODUCTS is a temporary table of the session the run created
\* for itself: no other session sees or replaces it.  GOLF_PRODUCTS_VIEW is
\* an object of the schema: the name resolves to whatever the last
\* create_or_replace_view left there.  A view left by the other run selects
\* from that run's session data: the statement reads the other batch where
\* the two runs share the session, and fails where they do not.
StagingReads(r) ==
    IF fe = "snowpark" THEN {[from |-> r, batch |-> runs[r].temp]}
    ELSE IF ~view.exists THEN {Missing}
    ELSE IF view.owner = r THEN {[from |-> r, batch |-> view.batch]}
    ELSE {[from |-> view.owner, batch |-> view.batch], Missing}

\* the except clause re-raises (Snowpark's finally closes the session, and the
\* temporary table goes with it; Streamlit's DROP VIEW is not reached)
Raise(r) ==
    runs' = [runs EXCEPT ![r].pc = "raised", ![r].temp = <<>>]

\* create_dataframe, then save_as_table(..., table_type="temporary") or
\* create_or_replace_view
ConcStage(r, df) ==
    /\ runs[r].pc = "idle"
    /\ IF fe = "snowpark"
       THEN /\ runs' = [runs EXCEPT ![r].pc = "staged",
                                    ![r].batch = prepare_for_snowflake(df),
                                    ![r].temp = prepare_for_snowflake(df)]
            /\ UNCHANGED view
       ELSE /\ runs' = [runs EXCEPT ![r].pc = "staged",
                                    ![r].batch = prepare_for_snowflake(df)]
            /\ view' = [exists |-> TRUE, owner |-> r,
                        batch |-> prepare_for_snowflake(df)]
    /\ UNCHANGED <<recVars, fetchVars, scrapeVars>>

\* session.sql(merge_query).collect(): one statement, at its own
\* CURRENT_TIMESTAMP(), on the staging object as it is now
ConcMerge(r) ==
    /\ runs[r].pc = "staged"
    /\ \E source \in StagingReads(r) :
          IF source = Missing
          THEN /\ Raise(r)
               /\ UNCHANGED <<store, now>>
          ELSE /\ now' = now + 1
               /\ store' \in merge_query(store, source.batch, now')
               /\ runs' = [runs EXCEPT ![r].pc = "merged",
                                       ![r].reads = Append(@, source.from)]
    /\ UNCHANGED <<upc, staged, new_records, updated_records, store0, prev>>
    /\ UNCHANGED <<view, fetchVars, scrapeVars>>

\* the first statistics query
ConcCountNew(r) ==
    /\ runs[r].pc = "merged"
    /\ \E source \in StagingReads(r) :
          IF source = Missing
          THEN Raise(r)
          ELSE runs' = [runs EXCEPT ![r].pc = "counted",
                                    ![r].new_records = count_new(store, source.batch),
                                    ![r].reads = Append(@, source.from)]
    /\ UNCHANGED <<view, recVars, fetchVars, scrapeVars>>

\* the second statistics query
ConcCountUpdated(r) ==
    /\ runs[r].pc = "counted"
    /\ \E source \in StagingReads(r) :
          IF source = Missing
          THEN Raise(r)
          ELSE runs' = [runs EXCEPT ![r].pc = "reported",
                                    ![r].updated_records = count_updated(store, source.batch),
                                    ![r].reads = Append(@, source.from)]
    /\ UNCHANGED <<view, recVars, fetchVars, scrapeVars>>

\* the end of the upload: Snowpark closes its session (finally), Streamlit
\* runs DROP VIEW IF EXISTS GOLF_PRODUCTS_VIEW on whatever holds the name
ConcCleanUp(r) ==
    /\ runs[r].pc = "reported"
    /\ runs' = [runs EXCEPT ![r].pc = "done", ![r].temp = <<>>]
    /\ view' = IF fe = "snowpark" THEN view ELSE NoView
    /\ UNCHANGED <<recVars, fetchVars, scrapeVars>>

InitConcurrent ==
    /\ store = <<>> /\ now = 0 /\ upc = "idle" /\ staged = <<>>
    /\ new_records = 0 /\ updated_records = 0 /\ store0 = <<>> /\ prev = NoBatch
    /\ fe \in {"snowpark", "streamlit"}
    /\ retry_count = 0 /\ fpc = "idle" /\ attempt = 0
    /\ waited = 0 /\ outcome = "none" /\ hist = <<>>
    /\ ScrapeIdle
    /\ ConcIdle

NextConcurrent ==
    \/ \E r \in Runs, df \in ConcFrames : ConcStage(r, df)
    \/ \E r \in Runs : ConcMerge(r)
    \/ \E r \in Runs : ConcCountNew(r)
    \/ \E r \in Runs : ConcCountUpdated(r)
    \/ \E r \in Runs : ConcCleanUp(r)

SpecConcurrent == InitConcurrent /\ [][NextConcurrent]_vars

-----------------------------------------------------------------------------
(* Identity of scraped records: create_driver_id over brand and model texts *)

\* a listing element with the given brand and model (None when the page has
\* no such tag), all other fields fixed
ElBM(brand, model) ==
    [brand |-> brand, model |-> model, price |-> Some(<<"9">>),
     condition |-> Some(<<"N", "e", "w">>), attrs |-> <<>>, link |-> Some(<<"/", "a">>)]

\* brand and model texts a listing may carry
BrandTexts == {Nothing, Some(<<"A">>), Some(<<"A", "_">>)}
ModelTexts == {Nothing, Some(<<"_">>), Some(<<"b">>), Some(<<"_", "b">>)}

IdentityListings == {ElBM(b, m) : b \in BrandTexts, m \in ModelTexts}

\* the products list when the page loop of scrape_products has ended
CollectedProducts ==
    {parse_products(els) :
        els \in UNION {[1..n -> IdentityListings] : n \in 1..MaxBatch}}

\* the tail of scrape_products: the frame with its SOURCE_URL and DRIVER_ID
\* columns, sorted, is returned
BuildFrame ==
    /\ spc = "collected"
    /\ returned_df' = data_frame(products, WEBSITE_URL)
    /\ spc' = "returned"
    /\ UNCHANGED <<max_pages, current_page, products, pagelog>>
    /\ UNCHANGED <<recVars, fetchVars>>
    /\ UNCHANGED concVars

InitIdentity ==
    /\ store = <<>> /\ now = 0 /\ upc = "idle" /\ staged = <<>>
    /\ new_records = 0 /\ updated_records = 0 /\ store0 = <<>> /\ prev = NoBatch
    /\ ConcIdle
    /\ FetchIdle
    /\ max_pages = 1 /\ current_page = 1
    /\ products \in CollectedProducts
    /\ spc = "collected"
    /\ pagelog = <<>> /\ returned_df = <<>>

NextIdentity == BuildFrame

SpecIdentity == InitIdentity /\ [][NextIdentity]_vars

-----------------------------------------------------------------------------
(* Claims about the reconciler, checked under SpecReconcile                *)

\* the MERGE of the current upload has run
AfterMerge == upc \in {"merged", "counted", "reported"}

\* target rows the MERGE changed, by position
Changed == {i \in 1..Len(store0) : store[i] # store0[i]}

\* C1: reconciling a batch of N records with pairwise distinct identities,
\* none of them stored, reports inserted = N and updated = 0; reconciling the
\* same batch again right after reports inserted = 0 and updated = 0.
C1_Idempotence ==
    upc = "reported" =>
        /\ Fresh(staged, store0) =>
              new_records = Len(staged) /\ updated_records = 0
        /\ (prev.fresh /\ prev.batch = staged) =>
              new_records = 0 /\ updated_records = 0

\* C2: when a stored identity with numeric price A comes in with numeric
\* price B # A, exactly one stored row changes: its price becomes B, its
\* source_url the incoming one, its last_updated advances to the reconcile
\* time, and every other column (first_seen included) stays as it was.
C2_ChangeDetection ==
    AfterMerge =>
        \A i \in 1..Len(store0), j \in 1..Len(staged) :
            (/\ on_driver_id(store0[i], staged[j])
             /\ ~store0[i].PRICE.null /\ ~staged[j].PRICE.null
             /\ store0[i].PRICE # staged[j].PRICE)
            => /\ Cardinality({k \in Changed : on_driver_id(store0[k], staged[j])}) = 1
               /\ store0[i].LAST_UPDATED < now
               /\ store[i] = [store0[i] EXCEPT !.PRICE = staged[j].PRICE,
                                               !.SOURCE_URL = staged[j].SOURCE_URL,
                                               !.LAST_UPDATED = now]

\* C3: the reported counts are the numbers of rows the MERGE inserted and
\* updated.
C3_CountsMatchMerge ==
    upc = "reported" =>
        /\ new_records = Len(store) - Len(store0)
        /\ updated_records = Cardinality(Changed)

\* an incoming identity whose every incoming record carries the stored price
\* of target row t (two missing prices are the same price)
SamePriceIncoming(t, source) ==
    /\ \E j \in 1..Len(source) : on_driver_id(t, source[j])
    /\ \A j \in 1..Len(source) :
          on_driver_id(t, source[j]) => source[j].PRICE = t.PRICE

\* C4: a stored row whose identity comes in with the same price is left
\* entirely unchanged, whatever the other incoming fields are.
C4_SamePriceNoOp ==
    AfterMerge =>
        \A i \in 1..Len(store0) :
            SamePriceIncoming(store0[i], staged) => store[i] = store0[i]

\* C4 witness: a row kept as it was although its identity came in with
\* another source_url and another product_url at the same price
C4_Witness ==
    /\ upc = "merged"
    /\ \E i \in 1..Len(store0), j \in 1..Len(staged) :
          /\ SamePriceIncoming(store0[i], staged)
          /\ on_driver_id(store0[i], staged[j])
          /\ staged[j].SOURCE_URL # store0[i].SOURCE_URL
          /\ staged[j].PRODUCT_URL # store0[i].PRODUCT_URL
          /\ store[i] = store0[i]

\* C5: no step removes an identity from the table, and a stored row whose
\* identity is absent from the current batch is left unchanged.
C5_NoSyncDelete ==
    [][/\ Ids(store) \subseteq Ids(store')
       /\ Len(store') >= Len(store)
       /\ \A i \in 1..Len(store) :
             /\ store'[i].DRIVER_ID = store[i].DRIVER_ID
             /\ store[i].DRIVER_ID \notin Ids(staged) => store'[i] = store[i]]_vars

\* C5 witness: a MERGE that changed the table and kept, unchanged, a row whose
\* identity the batch does not hold
C5_Witness ==
    /\ upc = "merged"
    /\ store # store0
    /\ \E i \in 1..Len(store0) :
          store0[i].DRIVER_ID \notin Ids(staged) /\ store[i] = store0[i]

Txt_1234_50 == <<"$", "1", ",", "2", "3", "4", ".", "5", "0">>
Txt_NA == <<"N", "/", "A">>

\* C6: an unparseable or empty price becomes the absent value, never 0.0, and
\* the MERGE treats absent as different from every number: a stored row whose
\* price differs from the incoming one because exactly one of them is absent
\* is updated.
C6_AbsentPriceDetected ==
    /\ clean_price(Txt_1234_50) = Norm(123450, 2)
    /\ clean_price(<<>>) = NULL /\ clean_price(Txt_NA) = NULL
    /\ NULL # Zero
    /\ AfterMerge =>
          \A i \in 1..Len(store0), j \in 1..Len(staged) :
              (/\ on_driver_id(store0[i], staged[j])
               /\ store0[i].PRICE.null # staged[j].PRICE.null)
              => i \in Changed

-----------------------------------------------------------------------------
(* Claims about the fetchers, checked under SpecFetch                      *)

\* a failure the design retries: a network error, HTTP 5xx, HTTP 429
Transient(e) ==
    \/ e.kind = "conn"
    \/ e.kind = "http" /\ (e.status = 429 \/ e.status >= 500)

AllTransient == \A k \in 1..Len(hist) : Transient(hist[k])

Finished == fpc \in {"returned", "raised"}

\* C7 as stated: after R attempts that failed transiently the fetch goes on to
\* the attempt that would succeed, so it has not raised.
C7_RetryThenSuccess ==
    (retry_count >= 1 /\ Len(hist) = retry_count /\ AllTransient) => fpc # "raised"

\* C7 amended: the fetch issues at most R GET attempts; a success on any of
\* them is returned, and when the R-th attempt fails too the fetch raises
\* instead of making another attempt.
C7_AtMostRAttempts ==
    /\ Len(hist) <= retry_count
    /\ outcome = "response" <=> (hist # <<>> /\ hist[Len(hist)].kind = "ok")
    /\ (hist # <<>> /\ hist[Len(hist)].kind = "ok") => fpc = "returned"
    /\ (hist # <<>> /\ Len(hist) = retry_count /\ hist[Len(hist)].kind # "ok")
          => fpc = "raised"

\* C7 witness: with retry count 3, two failed attempts and then a success,
\* which is returned
C7_Witness ==
    /\ retry_count = 3 /\ Len(hist) = 3
    /\ hist[1].kind # "ok" /\ hist[2].kind # "ok" /\ hist[3].kind = "ok"
    /\ fpc = "returned" /\ outcome = "response"

\* C8: a fetch whose every attempt fails transiently raises after exactly R
\* GET attempts, never fewer and never more, and returns nothing.
C8_RetryExhaustion ==
    /\ Len(hist) <= retry_count
    /\ (Finished /\ hist # <<>> /\ AllTransient)
          => (fpc = "raised" /\ Len(hist) = retry_count)

\* C9: another attempt follows exactly the transient failures while attempts
\* remain; any other HTTP error status is raised at once, with no further GET.
C9_RetryClassification ==
    /\ \A k \in 1..(Len(hist) - 1) : Transient(hist[k])
    /\ \A k \in 1..Len(hist) :
          (hist[k].kind = "http" /\ ~Transient(hist[k]))
          => (k = Len(hist) /\ fpc = "raised")
    /\ (hist # <<>> /\ Transient(hist[Len(hist)]) /\ Len(hist) < retry_count)
          => fpc = "loop"

Is429(e) == e.kind = "http" /\ e.status = 429

\* C10: after a 429 with a parseable Retry-After the next attempt comes no
\* sooner than that delay; after one without it the wait to the next attempt
\* grows with the attempt number; the header's value never makes the fetch
\* fail.
C10_RetryAfterHonored ==
    /\ outcome # "ValueError"
    /\ \A k \in 1..(Len(hist) - 1) :
          (Is429(hist[k]) /\ retry_after_parses(hist[k].retry_after))
          => hist[k + 1].gap >= Millis(FloatValue(hist[k].retry_after.text))
    /\ \A k1, k2 \in 1..(Len(hist) - 1) :
          (/\ k1 < k2
           /\ Is429(hist[k1]) /\ ~retry_after_parses(hist[k1].retry_after)
           /\ Is429(hist[k2]) /\ ~retry_after_parses(hist[k2].retry_after))
          => hist[k1 + 1].gap <= hist[k2 + 1].gap

-----------------------------------------------------------------------------
(* Claims about a scraping run, checked under SpecScrape                   *)

\* the configured minimum delay between requests, in ms
MinDelay == IF fe = "snowpark" THEN Ms(SLEEP_TIME) ELSE Ms(base_delay)

\* C11: between any two consecutive GET attempts of a run, the later one a
\* retry or the first attempt for the next page, at least the configured
\* minimum inter-request delay elapses.
C11_Politeness ==
    \A k \in 1..Len(hist) :
        (k > 1 \/ pagelog # <<>>) => hist[k].gap >= MinDelay

\* scrape_products has returned its frame to the caller
Done == spc \in {"returned", "no_data"}

\* the records parsed from the pages of a log, in page order
RECURSIVE Parsed(_)
Parsed(log) ==
    IF log = <<>> THEN <<>>
    ELSE Parsed(SubSeq(log, 1, Len(log) - 1)) \o parse_products(log[Len(log)].elements)

\* the listing elements of a log's pages that parse without raising
RECURSIVE WellFormed(_)
WellFormed(log) ==
    IF log = <<>> THEN <<>>
    ELSE WellFormed(SubSeq(log, 1, Len(log) - 1))
         \o SelectSeq(log[Len(log)].elements, LAMBDA el : ~ParseRaises(el))

\* the fetch of the last page asked for raised
EndedByFailure == pagelog # <<>> /\ pagelog[Len(pagelog)].result = "raised"

\* C12: when the fetch of page k raises after pages 1..k-1 were scraped,
\* scrape_products returns (the exception is not propagated) and the frame it
\* returns holds exactly the records parsed from pages 1..k-1, none discarded.
C12_FailureKeepsPages ==
    EndedByFailure =>
        LET before == SubSeq(pagelog, 1, Len(pagelog) - 1)
        IN  /\ Done
            /\ \A i \in 1..Len(before) : before[i].result = "response"
            /\ returned_df = data_frame(Parsed(before), WEBSITE_URL)
            /\ Len(returned_df) = Len(WellFormed(before))
            /\ \A i \in 1..Len(WellFormed(before)) :
                   \E j \in 1..Len(returned_df) :
                       /\ returned_df[j].URL = product_info(WellFormed(before)[i]).URL
                       /\ returned_df[j].Price = product_info(WellFormed(before)[i]).Price

\* C12 witness: the fetch of page 3 raised and the frame holds the five
\* records of pages 1 and 2
C12_Witness ==
    /\ EndedByFailure /\ Len(pagelog) = 3
    /\ spc = "returned"
    /\ Len(returned_df) = 5

\* a fetched page that ends pagination: no listing element, or no next link
Stops(e) == e.result = "response" /\ (e.elements = <<>> \/ ~e.next)

AllFetched == \A i \in 1..Len(pagelog) : pagelog[i].result = "response"

\* C13: with page bound maxPages and page k the first page without a next
\* link or without listing elements, the run asks for exactly the pages
\* 1..min(k, maxPages), each once and each successful fetch with one
\* successful GET, never for page maxPages + 1 or a page after k, and it
\* returns without error.
C13_PaginationStop ==
    /\ \A i \in 1..Len(pagelog) : pagelog[i].page = i
    /\ Len(pagelog) <= max_pages
    /\ \A i \in 1..(Len(pagelog) - 1) : ~Stops(pagelog[i])
    /\ spc = "fetching" =>
          /\ Len(pagelog) < max_pages
          /\ \A k \in 1..(Len(hist) - 1) : hist[k].kind # "ok"
    /\ (Done /\ AllFetched) =>
          \/ pagelog # <<>> /\ Stops(pagelog[Len(pagelog)])
          \/ Len(pagelog) = max_pages
    /\ (spc \in {"loop", "fetching"} /\ pagelog # <<>>) =>
          ~Stops(pagelog[Len(pagelog)])

\* C13 witness: page bound 3, page 2 has listings and no next link, and the
\* run has returned after asking for pages 1 and 2 only
C13_Witness ==
    /\ max_pages = 3 /\ Len(pagelog) = 2 /\ spc = "returned"
    /\ pagelog[2].result = "response"
    /\ pagelog[2].elements # <<>> /\ ~pagelog[2].next

\* a fetched page after which the loop goes on
GoesOn(e) == e.result = "response" /\ e.elements # <<>> /\ e.next

\* C14: page N+1 is asked for only after page N was fetched successfully,
\* yielded a listing element and showed a next link; the pages asked for are
\* 1, 2, 3, ... with none skipped, and a request is in flight only inside the
\* one fetcher call of the page being scraped.
C14_SequentialOrdered ==
    /\ \A i \in 1..Len(pagelog) : pagelog[i].page = i
    /\ \A i \in 1..(Len(pagelog) - 1) : GoesOn(pagelog[i])
    /\ spc = "fetching" =>
          /\ current_page = Len(pagelog) + 1
          /\ pagelog # <<>> => GoesOn(pagelog[Len(pagelog)])
    /\ fpc = "loop" => spc = "fetching"
    /\ spc = "loop" => hist = <<>>

\* C14 witness: page 3 is being fetched, after pages 1 and 2
C14_Witness ==
    /\ spc = "fetching" /\ current_page = 3 /\ Len(pagelog) = 2
    /\ hist # <<>>

\* listing elements of a page that raise in parse_product
Malformed(els) == {i \in 1..Len(els) : ParseRaises(els[i])}

\* C15: of the n listing elements of the pages scraped, m of which raise in
\* parsing, exactly the n - m others yield records, in page order; a page
\* with a malformed element does not end the run when it has a next link and
\* the page bound is not reached.
C15_ParseIsolation ==
    /\ products = [j \in 1..Len(WellFormed(pagelog)) |->
                      product_info(WellFormed(pagelog)[j])]
    /\ \A i \in 1..Len(pagelog) :
          (pagelog[i].result = "response" /\ Malformed(pagelog[i].elements) # {})
          => LET n == Len(pagelog[i].elements)
                 m == Cardinality(Malformed(pagelog[i].elements))
             IN  /\ Len(Parsed(SubSeq(pagelog, 1, i)))
                        = Len(Parsed(SubSeq(pagelog, 1, i - 1))) + n - m
                 /\ (Done /\ i = Len(pagelog) /\ pagelog[i].next) => i = max_pages

\* C15 witness: a page of five elements with the third malformed gave four
\* records, and the next page was fetched after it
C15_Witness ==
    /\ Len(pagelog) = 2
    /\ Len(pagelog[1].elements) = 5 /\ Malformed(pagelog[1].elements) = {3}
    /\ Len(Parsed(SubSeq(pagelog, 1, 1))) = 4
    /\ pagelog[2].result = "response" /\ Len(products) > 4

\* C16: a run that failed is told apart, by what it hands to the caller, from
\* a run that ended normally with zero records: a run ended by a fetch failure
\* never returns the frame of a normal empty run, and the caller neither
\* reconciles nor reports such a frame as an empty observation.
C16_EmptyVsFailed ==
    /\ (Done /\ EndedByFailure) => returned_df # data_frame(<<>>, WEBSITE_URL)
    /\ (EndedByFailure /\ returned_df = <<>>) => (upc = "idle" /\ spc # "no_data")

\* C17: a run cut short, by the operator or by a fetch failure, still hands
\* the records collected so far to the caller, and reconciliation of that
\* incomplete batch is not started (the code holds no step that asks the
\* caller to confirm it).
C17_IncompleteNotReconciled ==
    /\ spc = "interrupted" => products = <<>>
    /\ (Done /\ EndedByFailure) => returned_df = data_frame(products, WEBSITE_URL)
    /\ EndedByFailure => upc = "idle"

-----------------------------------------------------------------------------
(* Further claims about the reconciler                                     *)

\* C18: whenever upload_to_snowflake raises, the table is as it was before
\* the call; every failing step raises to the caller (the model's failing
\* steps all lead to "raised").
C18_AtomicOrSurfaced ==
    upc = "raised" => store = store0

\* the seven identity fields of a row, case-folded
FoldedFields(r) ==
    <<Lower(r.BRAND), Lower(r.MODEL), Lower(r.CONDITION), Lower(r.DEXTERITY),
      Lower(r.LOFT), Lower(r.FLEX), Lower(r.SHAFT)>>

\* an identity as a function of a case-folded seven-field tuple and of
\* nothing else
IdentityOfFolded(t) ==
    Md5Hex(t[1] \o <<"_">> \o t[2] \o <<"_">> \o t[3] \o <<"_">> \o t[4]
           \o <<"_">> \o t[5] \o <<"_">> \o t[6] \o <<"_">> \o t[7])

\* a stored or staged row, under the column names of the scraped frame
AsScraped(r) ==
    [Brand |-> r.BRAND, Model |-> r.MODEL, Condition |-> r.CONDITION,
     Dexterity |-> r.DEXTERITY, Loft |-> r.LOFT, Flex |-> r.FLEX, Shaft |-> r.SHAFT]

\* the rows of the table and of the staged batch
Rows == {store[i] : i \in 1..Len(store)} \cup {staged[i] : i \in 1..Len(staged)}

\* C19: stored or staged records whose seven identity fields are equal up to
\* letter case have one identity, whatever their price, product URL and
\* source URL (two records of different identities differ in those fields);
\* the identity of a staged record is a function of its case-folded seven
\* fields alone, and both front-ends compute the same identity for it.
C19_IdentityDeterminism ==
    /\ \A r1, r2 \in Rows :
          r1.DRIVER_ID # r2.DRIVER_ID => FoldedFields(r1) # FoldedFields(r2)
    /\ upc = "staged" =>
          \A j \in 1..Len(staged) :
              /\ staged[j].DRIVER_ID = IdentityOfFolded(FoldedFields(staged[j]))
              /\ GolfClubScraper_create_driver_id(AsScraped(staged[j]))
                    = create_driver_id(AsScraped(staged[j]))

\* C19 witness: a stored and a staged record of one identity that differ in
\* the brand's letter case, in price, in product URL and in source URL
C19_Witness ==
    /\ upc = "staged"
    /\ \E i \in 1..Len(store), j \in 1..Len(staged) :
          /\ store[i].BRAND # staged[j].BRAND
          /\ FoldedFields(store[i]) = FoldedFields(staged[j])
          /\ store[i].PRICE # staged[j].PRICE
          /\ store[i].PRODUCT_URL # staged[j].PRODUCT_URL
          /\ store[i].SOURCE_URL # staged[j].SOURCE_URL
          /\ store[i].DRIVER_ID = staged[j].DRIVER_ID

\* the permutations of a batch
Perms(batch) ==
    {[i \in 1..Len(batch) |-> batch[f[i]]] :
        f \in {g \in [1..Len(batch) -> 1..Len(batch)] :
                  \A i, j \in 1..Len(batch) : g[i] = g[j] => i = j}}

\* the contents of a table: its rows with their multiplicities
BagOf(table) ==
    [r \in {table[i] : i \in 1..Len(table)} |->
        Cardinality({i \in 1..Len(table) : table[i] = r})]

\* C20: the sort leaves each record's identity as computed from its fields,
\* and reconciling any permutation of the batch from the same table yields
\* the same table contents and the same reported counts.
C20_OrderIndependence ==
    /\ \A i \in 1..Len(staged) :
          staged[i].DRIVER_ID = create_driver_id(AsScraped(staged[i]))
    /\ AfterMerge =>
          \A p \in Perms(staged) :
              \A s \in merge_query(store0, p, now) : BagOf(s) = BagOf(store)
    /\ upc = "reported" =>
          \A p \in Perms(staged) :
              /\ count_new(store, p) = new_records
              /\ count_updated(store, p) = updated_records

\* C21: a row's first_seen is the time of the call that inserted it and never
\* changes afterwards, last_updated >= first_seen, and a call changes a row's
\* last_updated only if it changed the row's price.
C21_Timestamps ==
    /\ \A i \in 1..Len(store) :
          /\ store[i].FIRST_SEEN >= 1 /\ store[i].FIRST_SEEN <= now
          /\ store[i].LAST_UPDATED >= store[i].FIRST_SEEN
          /\ store[i].LAST_UPDATED <= now
    /\ AfterMerge =>
          /\ Len(store) >= Len(store0)
          /\ \A i \in 1..Len(store0) :
                /\ store[i].FIRST_SEEN = store0[i].FIRST_SEEN
                /\ store[i].LAST_UPDATED # store0[i].LAST_UPDATED =>
                      /\ store[i].PRICE # store0[i].PRICE
                      /\ store[i].LAST_UPDATED = now
          /\ \A i \in (Len(store0) + 1)..Len(store) :
                store[i].FIRST_SEEN = now /\ store[i].LAST_UPDATED = now

\* C21 witness: a call has inserted one row and updated the price of a row
\* inserted by an earlier call, whose first_seen stays at that earlier time
C21_Witness ==
    /\ upc = "merged"
    /\ Len(store) > Len(store0)
    /\ \E i \in 1..Len(store0) :
          /\ store[i].PRICE # store0[i].PRICE
          /\ store[i].FIRST_SEEN < now
          /\ store[i].LAST_UPDATED = now

\* rows of a table or batch carry pairwise distinct DRIVER_IDs
KeyUnique(table) ==
    \A i, j \in 1..Len(table) : table[i].DRIVER_ID = table[j].DRIVER_ID => i = j

\* C23: starting from an empty store, every reachable store holds at most one
\* row per DRIVER_ID, and the batch handed to the MERGE holds at most one
\* record per identity, also when a scraped batch lists one club twice.
C23_KeyUniqueness ==
    /\ KeyUnique(store)
    /\ upc = "staged" => KeyUnique(staged)

\* the pre-hash key string of a row of the returned frame
KeyString(row) == Lower(unique_string(row))

\* C24: records of the returned frame whose case-folded seven-field tuples
\* differ have different pre-hash key strings and different identities, also
\* when a field holds the underscore or is empty.
C24_IdentitySeparation ==
    spc = "returned" =>
        \A i, j \in 1..Len(returned_df) :
            FoldedFields(prepare_for_snowflake(returned_df)[i])
              # FoldedFields(prepare_for_snowflake(returned_df)[j])
            => /\ KeyString(returned_df[i]) # KeyString(returned_df[j])
               /\ returned_df[i].DRIVER_ID # returned_df[j].DRIVER_ID

\* C22: every call of scrape_products returns its frame, whatever the site
\* serves and whether the page bound is a positive integer or unlimited; under
\* a finite bound at most max_pages pages are fetched, each with at most
\* retry_count GET attempts.
C22_ScrapeTerminates ==
    /\ <>(spc = "returned")
    /\ [](~unlimited(max_pages) =>
            /\ Len(hist) <= retry_count
            /\ Len(pagelog) + (IF spc = "fetching" THEN 1 ELSE 0) <= max_pages)

\* the MERGE of run r has run
RunMerged(r) == runs[r].pc \in {"merged", "counted", "reported", "done"}

\* C25: with the statements of two uploads interleaved in any order, no
\* upload fails for a missing staging object, every merge and count of an
\* upload reads that upload's own batch, each record an upload has merged is
\* stored under its identity, and every stored price is the price some upload
\* carries for that identity.
C25_RunIsolation ==
    /\ \A r \in Runs :
          /\ runs[r].pc # "raised"
          /\ \A k \in 1..Len(runs[r].reads) : runs[r].reads[k] = r
          /\ RunMerged(r) => Ids(runs[r].batch) \subseteq Ids(store)
    /\ \A i \in 1..Len(store) :
          \E r \in Runs : \E j \in 1..Len(runs[r].batch) :
              /\ runs[r].batch[j].DRIVER_ID = store[i].DRIVER_ID
              /\ runs[r].batch[j].PRICE = store[i].PRICE

====
